---- MODULE Spec2Model ----
(***************************************************************************)
(* Model of the retrieval-augmented answering core of RAG_SYS_Demo:        *)
(*   ConversationMemory and LLMService   (src/src/services/llm_service.py) *)
(*   VectorStoreService                  (src/src/services/vectorization.py)*)
(*   CleanRAGAgent                       (src/src/agents/rag_agent.py)     *)
(*   the question endpoint               (src/src/api/main.py)             *)
(***************************************************************************)
EXTENDS Integers, Sequences, FiniteSets, TLC

(***************************************************************************)
(* Bounds and input sets                                                   *)
(***************************************************************************)
\* ConversationMemory(max_history=...): the constructor parameter, scaled down
\* from its default of 10 so that eviction is reached.
max_history == 2

\* Number of turns the memory-bounding scenario appends to one session.
MaxTurns == 2 * max_history + 5

\* Turns the second session may receive in the memory harness.
MaxOtherTurns == 2

\* Caller-supplied session ids, and the absent session id (None).
Sessions == {"s1", "s2"}
NoSession == "None"

\* Questions asked, and the text the language model returns when it succeeds.
Queries == {"q1", "q2"}
LLMOutputs == {"a1"}

(***************************************************************************)
(* ConversationMemory                                                      *)
(***************************************************************************)
\* Python's seq[-n:]: the last n elements; the whole sequence when n = 0
\* (seq[-0:] is seq[0:]) or when n >= len(seq).
PySliceLast(seq, n) ==
    IF n = 0 \/ n >= Len(seq) THEN seq
    ELSE SubSeq(seq, Len(seq) - n + 1, Len(seq))

\* The dict stored for one turn (timestamp and message_hash are derived
\* from the clock and the content and are not modelled).
Message(role, content) == [role |-> role, content |-> content]

\* add_message: create the session on first use, append, trim to the last
\* 2*max_history turns.  conv is the self.conversations dict: a function whose
\* domain is the set of session ids present.
\* Mutant: the trim keeps the oldest turns instead of the newest.
TrimHistory_KeepOldest(msgs) ==
    IF Len(msgs) > max_history * 2 THEN SubSeq(msgs, 1, max_history * 2)
    ELSE msgs

TrimHistory(msgs) ==
    IF Len(msgs) > max_history * 2 THEN PySliceLast(msgs, max_history * 2)
    ELSE msgs

\* Mutant: one list shared by all sessions: the turn is appended to every
\* session present.
add_message_Shared(conv, sid, role, content) ==
    [s \in (DOMAIN conv) \cup {sid} |->
        TrimHistory(Append(IF s \in DOMAIN conv THEN conv[s] ELSE << >>,
                           Message(role, content)))]

add_message(conv, sid, role, content) ==
    LET base == IF sid \in DOMAIN conv THEN conv[sid] ELSE << >>
        msgs == Append(base, Message(role, content))
    IN  [s \in (DOMAIN conv) \cup {sid} |->
            IF s = sid THEN TrimHistory(msgs) ELSE conv[s]]

\* Mutant: the lookup is not guarded; an unknown session yields the KeyError.
get_history_Unguarded(conv, sid) ==
    IF sid \notin DOMAIN conv THEN <<Message("error", "KeyError")>> ELSE conv[sid]

\* get_history: [] for an unknown session, the stored list otherwise.
get_history(conv, sid) ==
    IF sid \notin DOMAIN conv THEN << >> ELSE conv[sid]

\* Mutant: clearing an unknown session resets the whole memory.
clear_session_ResetsAll(conv, sid) ==
    IF sid \in DOMAIN conv THEN [s \in (DOMAIN conv) \ {sid} |-> conv[s]]
    ELSE << >>

\* clear_session: delete the session's entry when it exists.
clear_session(conv, sid) ==
    IF sid \in DOMAIN conv THEN [s \in (DOMAIN conv) \ {sid} |-> conv[s]]
    ELSE conv

\* Mutant: the slice takes the oldest stored turns (history[:count]).
recent_Oldest(conv, sid, count) ==
    LET h == get_history(conv, sid)
    IN  IF count >= Len(h) THEN h ELSE SubSeq(h, 1, count)

\* The read the callers perform: get_history followed by history[-count:].
recent(conv, sid, count) == PySliceLast(get_history(conv, sid), count)

(***************************************************************************)
(* LLMService.generate_answer: the parts that do not touch the model       *)
(***************************************************************************)
\* Context documents handed to generate_answer (page_content of each Document).
DocLists == {<<"f1">>, <<"f2", "f1">>}

\* doc.page_content[:200] + "..."
Excerpt(content) == <<content, "...">>

\* Mutant: the index is enumerate's 0-based counter.
BuildSources_ZeroBased(docs) ==
    [i \in 1..Len(docs) |-> [index |-> i - 1, content |-> Excerpt(docs[i])]]

\* sources: one entry per context document, 1-based index, in document order.
BuildSources(docs) ==
    [i \in 1..Len(docs) |-> [index |-> i, content |-> Excerpt(docs[i])]]

\* context_texts: "[Source i]: page_content" for each document, in order.
BuildContext(docs) ==
    [i \in 1..Len(docs) |-> [marker |-> i, text |-> docs[i]]]

\* Number of stored turns generate_answer replays (history[-6:]).
HistoryWindow == 6

RECURSIVE HistoryMessages(_)
\* user turns become HumanMessage, assistant turns AIMessage, others are skipped.
HistoryMessages(turns) ==
    IF turns = << >> THEN << >>
    ELSE LET m == Head(turns)
             rest == HistoryMessages(Tail(turns))
         IN  IF m.role = "user"
                THEN <<[type |-> "human", content |-> <<m.content>>]>> \o rest
             ELSE IF m.role = "assistant"
                THEN <<[type |-> "ai", content |-> <<m.content>>]>> \o rest
             ELSE rest

\* Mutant: the whole stored history is replayed, not its last turns.
BuildMessages_WholeHistory(conv, query, docs, sid) ==
    <<[type |-> "system", content |-> BuildContext(docs)]>>
    \o (IF sid # NoSession THEN HistoryMessages(get_history(conv, sid))
        ELSE << >>)
    \o <<[type |-> "human", content |-> <<"Question", query>>]>>

\* The message list sent to the model: system prompt, replayed history (only
\* with a session id), then "Question: <query>".
BuildMessages(conv, query, docs, sid) ==
    <<[type |-> "system", content |-> BuildContext(docs)]>>
    \o (IF sid # NoSession
           THEN HistoryMessages(PySliceLast(get_history(conv, sid), HistoryWindow))
           ELSE << >>)
    \o <<[type |-> "human", content |-> <<"Question", query>>]>>

\* self.memory.add_message(session_id, "user", query)
store_question(conv, sid, query) == add_message(conv, sid, "user", query)

\* Mutant: the answer is stored as a user turn.
store_answer_AsUser(conv, sid, answer) == add_message(conv, sid, "user", answer)

\* self.memory.add_message(session_id, "assistant", answer)
store_answer(conv, sid, answer) == add_message(conv, sid, "assistant", answer)

\* Mutant: the question is stored although the model call failed.
on_llm_failure_StoresQuestion(conv, sid, query) ==
    IF sid # NoSession THEN add_message(conv, sid, "user", query) ELSE conv

\* except Exception: log and re-raise; the memory is left as it is.
on_llm_failure(conv, sid, query) == conv

\* The dict generate_answer returns (metadata omitted).
NoResult == [none |-> TRUE]
AnswerResult(query, answer, sources, sid) ==
    [query |-> query, answer |-> answer, sources |-> sources, session_id |-> sid]

(***************************************************************************)
(* VectorStoreService                                                      *)
(***************************************************************************)
\* self.vector_store: None after construction, a FAISS index over the
\* documents once created.
\* docs are the page contents of the stored fragments in insertion order,
\* marked the positions of the fragments whose metadata a search has written
\* to, dim the embedding dimension the index was built with.
ProviderDim == "provider"
NoStore == [initialized |-> FALSE, docs |-> << >>, marked |-> {},
            dim |-> ProviderDim]

\* A fresh index over the documents, embedded by the service's provider.
NewStore(docs) ==
    [initialized |-> TRUE, docs |-> docs, marked |-> {}, dim |-> ProviderDim]

\* settings.TOP_K_RESULTS
TOP_K_RESULTS == 5

\* The k best matches; the ranking is the embedding provider's, modelled as
\* the order of insertion.
TopK(docs, k) == IF Len(docs) <= k THEN docs ELSE SubSeq(docs, 1, k)

\* Mutant: the empty list is not rejected and an empty index is built.
create_vector_store_NoCheck(store, docs) ==
    [raised |-> FALSE, store |-> NewStore(docs)]

\* create_vector_store: ValueError on an empty list, otherwise a fresh index.
create_vector_store(store, docs) ==
    IF docs = << >> THEN [raised |-> TRUE, store |-> store]
    ELSE [raised |-> FALSE, store |-> NewStore(docs)]

\* add_documents: ValueError when no index exists, otherwise inserts.
add_documents(store, docs) ==
    IF ~store.initialized THEN [raised |-> TRUE, store |-> store]
    ELSE [raised |-> FALSE,
          store |-> [store EXCEPT !.docs = store.docs \o docs]]

\* The ValueError messages of the service.
NotInitialized == "Vector store not initialized"
NotInitializedCreateFirst == "Vector store not initialized. Create it first."
NoDocumentsProvided == "No documents provided for vector store creation"

\* The documents a search returns are the objects the index stores; the
\* search writes search_watermark (and relevance_score) into their metadata.
MarkResults(store, k) ==
    [store EXCEPT !.marked = @ \cup (1..Len(TopK(store.docs, k)))]

\* similarity_search: ValueError when no index exists.
similarity_search(store, query) ==
    IF ~store.initialized
       THEN [raised |-> TRUE, results |-> << >>, store |-> store]
    ELSE [raised |-> FALSE, results |-> TopK(store.docs, TOP_K_RESULTS),
          store |-> MarkResults(store, TOP_K_RESULTS)]

\* Mutant: without an index the search returns an empty list.
similarity_search_with_score_EmptyOk(store, query) ==
    IF ~store.initialized
       THEN [raised |-> FALSE, results |-> << >>, store |-> store]
    ELSE [raised |-> FALSE, results |-> TopK(store.docs, TOP_K_RESULTS),
          store |-> MarkResults(store, TOP_K_RESULTS)]

\* similarity_search_with_score: ValueError when no index exists.
similarity_search_with_score(store, query) ==
    IF ~store.initialized
       THEN [raised |-> TRUE, results |-> << >>, store |-> store]
    ELSE [raised |-> FALSE, results |-> TopK(store.docs, TOP_K_RESULTS),
          store |-> MarkResults(store, TOP_K_RESULTS)]

(***************************************************************************)
(* CleanRAGAgent: tools and constants                                      *)
(***************************************************************************)
None == "None"
NoDocumentsError == "No relevant documents found"
KeyErrorText == "'text'"
LLMError == "llm call failed"
ToolNodeError == "ValueError: no AIMessage with tool calls"
VectorStoreError == "Vector store not initialized"
NoDocumentsUploaded == "No documents uploaded. Please upload documents first."

\* _retrieve_documents_tool: the search result, or success False when the
\* search raises.
retrieve_documents_tool(store, query) ==
    LET r == similarity_search_with_score(store, query)
    IN  IF r.raised
           THEN [success |-> FALSE, documents |-> << >>, count |-> 0,
                 error |-> VectorStoreError]
        ELSE [success |-> TRUE, documents |-> r.results,
              count |-> Len(r.results), error |-> None]

\* What the model answers when asked to rewrite a question.
Standalone(query) == IF query = "q1" THEN "sq1" ELSE "sq2"

\* Number of stored turns the rewriter is shown (history[-4:]).
RewriteWindow == 4

\* Mutant: the model is asked even when the session has no history.
generate_standalone_question_AlwaysAsks(conv, query, sid, llm) ==
    [standalone |-> IF llm = "raise" THEN query ELSE Standalone(query),
     llm_called |-> TRUE,
     shown |-> PySliceLast(get_history(conv, sid), RewriteWindow)]

\* generate_standalone_question: the question itself without history or when
\* the model call fails, the model's rewrite otherwise.  llm is the outcome of
\* the model call: "raise" or "ok".
generate_standalone_question(conv, query, sid, llm) ==
    LET history == get_history(conv, sid)
    IN  IF history = << >>
           THEN [standalone |-> query, llm_called |-> FALSE, shown |-> << >>]
        ELSE [standalone |-> IF llm = "raise" THEN query ELSE Standalone(query),
              llm_called |-> TRUE,
              shown |-> PySliceLast(history, RewriteWindow)]

\* Messages a caller may pass as previous_messages.
PrevMessages ==
    {<< >>, <<[type |-> "human", content |-> "q1"], [type |-> "ai", content |-> "a1"]>>}

\* Session ids generated by uuid.uuid4() per run of the model.
MaxUuid == 1
uuid4(n) == ToString(n + 1)
AllSessionIds == Sessions \cup {uuid4(i) : i \in 0..(MaxUuid - 1)}

\* Turns a session may receive through generate_answer in the program model.
MaxAppended == 6

\* Fragments the index may grow to.
MaxIndexed == 2

\* Files the upload endpoint may keep.
MaxUploads == 2

VARIABLES
    conversations,  \* ConversationMemory.conversations
    appended,       \* history: every turn appended to a session since it was created
    lastRead,       \* the result of the latest read of the memory, or NoRead
    ga,             \* the generate_answer call in progress (a direct caller's)
    before,         \* history: conversations when the current operation started
    vector_store,   \* VectorStoreService.vector_store
    req,            \* the current request to the agent: entry point and inputs
    pc,             \* position of process_question in the workflow
    state,          \* the AgentState of the run
    response,       \* what process_question returned
    http,           \* what the question endpoint answered
    steps,          \* history: the nodes the run has executed, in order
    rewriterLog,    \* history: invocations of the query rewriter in this run
    searchLog,      \* history: queries the index was searched with in this run
                    \* (by _retrieve_documents_tool, which no step invokes)
    uuidCount,      \* session ids generated so far
    index_call,     \* the latest call of a VectorStoreService method: its
                    \* arguments, outcome, and the index when it was made
    threads,        \* the service calls in progress on worker threads
    cleared,        \* history: the documents-clear endpoint was called and no
                    \* create or add has succeeded since
    uploads,        \* the files the upload endpoint has kept, in upload order:
                    \* the fragments of each and whether it is still on disk
    chunk_call      \* the latest chunk_text call: arguments and outcome

memvars == <<conversations, appended, lastRead>>
agentvars == <<req, pc, state, response, http, steps, rewriterLog, searchLog, uuidCount>>
vars == <<conversations, appended, lastRead, ga, before, vector_store, req, pc,
          state, response, http, steps, rewriterLog, searchLog, uuidCount,
          index_call, threads, cleared, uploads, chunk_call>>

NoRead == [sid |-> NoSession, count |-> 0, turns |-> << >>]
NoCall == [pc |-> "idle", query |-> None, docs |-> << >>, sid |-> NoSession,
           messages |-> << >>, sources |-> << >>, answer |-> None,
           result |-> NoResult]
NoRequest == [op |-> "none", query |-> None, sid |-> NoSession, prev |-> << >>,
              cold |-> FALSE]
NoState == [session_id |-> None, query |-> None, messages |-> << >>,
            standalone_query |-> None, documents |-> << >>, answer |-> NoResult,
            error |-> None, metadata |-> FALSE]
NoResponse == [success |-> FALSE, session_id |-> None, error |-> None,
               error_type |-> None, answer |-> NoResult, documents |-> << >>,
               returned |-> FALSE]
NoHttp == [status |-> 0, detail |-> None, answer |-> None]
NoIndexCall == [op |-> "none", docs |-> << >>, query |-> None, raised |-> FALSE,
                error |-> None, results |-> << >>, store_before |-> NoStore,
                file |-> 0, files_before |-> << >>]
NoChunkCall == [called |-> FALSE, text |-> << >>,
                metadata |-> [given |-> FALSE, keys |-> {}],
                metadata_after |-> [given |-> FALSE, keys |-> {}],
                documents |-> << >>]

\* Worker threads of a caller that runs the services on an executor.
Threads == {"t1", "t2"}
NoThreadCall == [op |-> "idle", pc |-> "idle", query |-> None, docs |-> << >>,
                 sid |-> NoSession, answer |-> None, raised |-> FALSE,
                 results |-> << >>]

\* Records a turn in the history variable.
Log(app, sid, role, content) ==
    IF sid \in DOMAIN app
       THEN [app EXCEPT ![sid] = Append(@, Message(role, content))]
    ELSE app

Init ==
    /\ conversations = << >>
    /\ appended = [s \in AllSessionIds |-> << >>]
    /\ lastRead = NoRead
    /\ ga = NoCall
    /\ before = << >>
    /\ vector_store = NoStore
    /\ req = NoRequest
    /\ pc = "idle"
    /\ state = NoState
    /\ response = NoResponse
    /\ http = NoHttp
    /\ steps = << >>
    /\ rewriterLog = << >>
    /\ searchLog = << >>
    /\ uuidCount = 0
    /\ index_call = NoIndexCall
    /\ threads = [t \in Threads |-> NoThreadCall]
    /\ cleared = FALSE
    /\ uploads = << >>
    /\ chunk_call = NoChunkCall

(***************************************************************************)
(* ConversationMemory driven directly through its methods                  *)
(***************************************************************************)
\* How many turns the harness appends to each session.
TurnCap(sid) == IF sid = "s1" THEN MaxTurns ELSE MaxOtherTurns

\* The turns the harness appends: a question as user, an answer as assistant.
MemTurns == {Message("user", "q1"), Message("assistant", "a1")}

MemAddMessage ==
    \E sid \in Sessions, m \in MemTurns :
        /\ Len(appended[sid]) < TurnCap(sid)
        /\ conversations' = add_message(conversations, sid, m.role, m.content)
        /\ appended' = Log(appended, sid, m.role, m.content)
        /\ lastRead' = NoRead
        /\ UNCHANGED <<ga, before, vector_store, agentvars, index_call, threads, cleared, uploads, chunk_call>>

MemGetHistory ==
    \E sid \in Sessions, count \in {max_history, 2 * max_history} :
        /\ lastRead' = [sid |-> sid, count |-> count,
                        turns |-> recent(conversations, sid, count)]
        /\ UNCHANGED <<conversations, appended, ga, before, vector_store,
                       agentvars, index_call, threads, cleared, uploads, chunk_call>>

MemClearSession ==
    \E sid \in Sessions :
        /\ conversations' = clear_session(conversations, sid)
        /\ appended' = [appended EXCEPT ![sid] = << >>]
        /\ lastRead' = NoRead
        /\ UNCHANGED <<ga, before, vector_store, agentvars, index_call, threads, cleared, uploads, chunk_call>>

NextMemory == MemAddMessage \/ MemGetHistory \/ MemClearSession

\* The ConversationMemory class driven directly through its three methods.
SpecMemory == Init /\ [][NextMemory]_vars

(***************************************************************************)
(* The program: one operation at a time (the handlers contain no await)    *)
(***************************************************************************)
\* How many turns generate_answer may append to each session.
AppendCap(sid) == IF sid = "s1" THEN MaxAppended ELSE MaxOtherTurns

\* No request to the agent and no generate_answer call is in progress.
Idle == pc \in {"idle", "done"} /\ ga.pc \in {"idle", "returned", "raised"}

\* An operation that is not a question starts: the previous operation's
\* result is no longer observed.
BeginOp(op) ==
    /\ req' = [NoRequest EXCEPT !.op = op]
    /\ before' = conversations
    /\ ga' = NoCall
    /\ pc' = "idle"
    /\ state' = NoState
    /\ response' = NoResponse
    /\ http' = NoHttp
    /\ steps' = << >>
    /\ rewriterLog' = << >>
    /\ searchLog' = << >>
    /\ UNCHANGED <<uuidCount, threads, chunk_call>>

\* --- LLMService.generate_answer called directly, step by step ---
\* Entry: build context, sources and the message list (reads the memory).
GenerateAnswerCall ==
    \E query \in Queries, docs \in DocLists, sid \in Sessions \cup {NoSession} :
        /\ Idle
        /\ sid # NoSession => Len(appended[sid]) + 2 <= AppendCap(sid)
        /\ ga' = [pc |-> "invoke", query |-> query, docs |-> docs, sid |-> sid,
                  messages |-> BuildMessages(conversations, query, docs, sid),
                  sources |-> BuildSources(docs), answer |-> None,
                  result |-> NoResult]
        /\ before' = conversations
        /\ req' = [NoRequest EXCEPT !.op = "generate_answer"]
        /\ pc' = "idle"
        /\ state' = NoState
        /\ response' = NoResponse
        /\ http' = NoHttp
        /\ steps' = << >>
        /\ rewriterLog' = << >>
        /\ searchLog' = << >>
        /\ index_call' = NoIndexCall
        /\ UNCHANGED <<memvars, vector_store, uuidCount, threads, cleared, uploads, chunk_call>>

\* self.llm.invoke(messages): returns a text or raises.
GenerateAnswerInvoke ==
    /\ ga.pc = "invoke"
    /\ \/ \E a \in LLMOutputs :
            /\ ga' = [ga EXCEPT !.answer = a,
                                !.pc = IF ga.sid # NoSession THEN "store_user"
                                       ELSE "result"]
            /\ UNCHANGED conversations
       \/ /\ ga' = [ga EXCEPT !.pc = "raised"]
          /\ conversations' = on_llm_failure(conversations, ga.sid, ga.query)
    /\ UNCHANGED <<appended, lastRead, before, vector_store, agentvars, index_call, threads, cleared, uploads, chunk_call>>

GenerateAnswerStoreUser ==
    /\ ga.pc = "store_user"
    /\ conversations' = store_question(conversations, ga.sid, ga.query)
    /\ appended' = Log(appended, ga.sid, "user", ga.query)
    /\ ga' = [ga EXCEPT !.pc = "store_assistant"]
    /\ UNCHANGED <<lastRead, before, vector_store, agentvars, index_call, threads, cleared, uploads, chunk_call>>

GenerateAnswerStoreAssistant ==
    /\ ga.pc = "store_assistant"
    /\ conversations' = store_answer(conversations, ga.sid, ga.answer)
    /\ appended' = Log(appended, ga.sid, "assistant", ga.answer)
    /\ ga' = [ga EXCEPT !.pc = "result"]
    /\ UNCHANGED <<lastRead, before, vector_store, agentvars, index_call, threads, cleared, uploads, chunk_call>>

\* Build the result dict and return it.
GenerateAnswerReturn ==
    /\ ga.pc = "result"
    /\ ga' = [ga EXCEPT !.pc = "returned",
                        !.result = AnswerResult(ga.query, ga.answer, ga.sources, ga.sid)]
    /\ UNCHANGED <<memvars, before, vector_store, agentvars, index_call, threads, cleared, uploads, chunk_call>>

\* --- VectorStoreService ---
CreateVectorStore ==
    \E docs \in DocLists \cup {<< >>} :
        LET r == create_vector_store(vector_store, docs)
        IN  /\ Idle
            /\ vector_store' = r.store
            /\ index_call' = [NoIndexCall EXCEPT
                                 !.op = "create_vector_store", !.docs = docs,
                                 !.raised = r.raised,
                                 !.error = IF r.raised THEN NoDocumentsProvided
                                           ELSE None,
                                 !.store_before = vector_store]
            /\ cleared' = (cleared /\ r.raised)
            /\ BeginOp("create_vector_store")
            /\ UNCHANGED <<memvars, uploads>>

\* The upload endpoint: the file is written, parsed and chunked, and the
\* chunks go to add_documents; when that raises the file is removed again.
UploadDocument ==
    \E docs \in {<<"f1">>, <<"f2">>} :
        LET r == add_documents(vector_store, docs)
        IN  /\ Idle
            /\ Len(vector_store.docs) < MaxIndexed
            /\ Len(uploads) < MaxUploads
            /\ uploads' = IF r.raised THEN uploads
                          ELSE Append(uploads, [docs |-> docs, on_disk |-> TRUE])
            /\ vector_store' = r.store
            /\ index_call' = [NoIndexCall EXCEPT
                                 !.op = "add_documents", !.docs = docs,
                                 !.raised = r.raised,
                                 !.error = IF r.raised
                                              THEN NotInitializedCreateFirst
                                           ELSE None,
                                 !.store_before = vector_store]
            /\ cleared' = (cleared /\ r.raised)
            /\ BeginOp("upload")
            /\ UNCHANGED memvars

\* What FAISS does with a query vector whose length is not the index's: the
\* library decides, so both outcomes are kept; with equal lengths it serves.
FaissDimensionError == "faiss: query dimension differs from index dimension"
LibraryRaises(store) ==
    IF store.initialized /\ store.dim # ProviderDim THEN BOOLEAN ELSE {FALSE}

\* similarity_search and similarity_search_with_score called directly.
SimilaritySearch ==
    \E query \in Queries, method \in {"similarity_search",
                                       "similarity_search_with_score"},
       lib_raises \in LibraryRaises(vector_store) :
        LET r == IF lib_raises
                    THEN [raised |-> TRUE, results |-> << >>, store |-> vector_store]
                 ELSE IF method = "similarity_search"
                    THEN similarity_search(vector_store, query)
                 ELSE similarity_search_with_score(vector_store, query)
        IN  /\ Idle
            /\ index_call' = [NoIndexCall EXCEPT
                                 !.op = method, !.query = query,
                                 !.raised = r.raised,
                                 !.error = IF lib_raises THEN FaissDimensionError
                                           ELSE IF r.raised THEN NotInitialized
                                           ELSE None,
                                 !.results = r.results,
                                 !.store_before = vector_store]
            /\ vector_store' = r.store
            /\ BeginOp("search")
            /\ UNCHANGED <<memvars, cleared, uploads, chunk_call>>

\* vector_store.clear(): VectorStoreService defines no clear method, so the
\* call raises AttributeError and the index is left as it is.
AttributeErrorClear == "'VectorStoreService' object has no attribute 'clear'"
clear(store) == [raised |-> TRUE, error |-> AttributeErrorClear, store |-> store]

\* The documents-clear endpoint: vector_store.clear() first; its exception is
\* answered with status 500 before any file is deleted.
ClearDocuments ==
    LET r == clear(vector_store)
    IN  /\ Idle
        /\ vector_store' = r.store
        /\ index_call' = [NoIndexCall EXCEPT
                             !.op = "clear", !.raised = r.raised,
                             !.error = r.error, !.store_before = vector_store]
        /\ cleared' = TRUE
        /\ BeginOp("clear_documents")
        /\ UNCHANGED <<memvars, uploads>>

\* The single-document delete endpoint: the first existing upload file of the
\* document is unlinked, 404 when there is none; the index is not touched.
DocumentNotFound == "Document not found"

\* Mutant: the delete also drops the document's fragments from the index.
delete_document_DropsFragments(store, files, document_id) ==
    IF document_id \in 1..Len(files) /\ files[document_id].on_disk
        THEN [raised |-> FALSE,
              store |-> [store EXCEPT
                            !.docs = SelectSeq(@, LAMBDA f :
                                \A i \in 1..Len(files[document_id].docs) :
                                    files[document_id].docs[i] # f),
                            !.marked = {}],
              files |-> [files EXCEPT ![document_id].on_disk = FALSE]]
    ELSE [raised |-> TRUE, store |-> store, files |-> files]

delete_document(store, files, document_id) ==
    IF document_id \in 1..Len(files) /\ files[document_id].on_disk
        THEN [raised |-> FALSE, store |-> store,
              files |-> [files EXCEPT ![document_id].on_disk = FALSE]]
    ELSE [raised |-> TRUE, store |-> store, files |-> files]

DeleteDocument ==
    \E document_id \in 1..MaxUploads :
        LET r == delete_document(vector_store, uploads, document_id)
        IN  /\ Idle
            /\ vector_store' = r.store
            /\ uploads' = r.files
            /\ index_call' = [NoIndexCall EXCEPT
                                 !.op = "delete_document", !.file = document_id,
                                 !.docs = IF r.raised THEN << >>
                                          ELSE uploads[document_id].docs,
                                 !.raised = r.raised,
                                 !.error = IF r.raised THEN DocumentNotFound
                                           ELSE None,
                                 !.store_before = vector_store,
                                 !.files_before = uploads]
            /\ BeginOp("delete_document")
            /\ UNCHANGED <<memvars, cleared>>

\* --- save_index / load_index ---
\* An index directory written by save_index: the fragments and the vectors of
\* the embedding model that built them (this configuration's or another's).
\* save_local writes no dimension of its own and watermark.txt holds none.
OtherDim == "other"
NoSaved == [docs |-> << >>, dim |-> "none"]
SavedIndexes == {[docs |-> d, dim |-> m] : d \in DocLists, m \in {ProviderDim, OtherDim}}

NoSuchIndexFile == "could not open index.faiss"
NameErrorOs == "name 'os' is not defined"

\* load_index: FAISS.load_local's result is assigned to self.vector_store
\* first; the watermark check then names os, which the module never imports,
\* and the NameError is logged and re-raised. Nothing compares dimensions.
load_index(store, saved) ==
    IF saved = NoSaved
        THEN [raised |-> TRUE, error |-> NoSuchIndexFile, store |-> store]
    ELSE [raised |-> TRUE, error |-> NameErrorOs,
          store |-> [initialized |-> TRUE, docs |-> saved.docs, marked |-> {},
                     dim |-> saved.dim]]

LoadIndex ==
    \E saved \in SavedIndexes \cup {NoSaved} :
        LET r == load_index(vector_store, saved)
        IN  /\ Idle
            /\ vector_store' = r.store
            /\ index_call' = [NoIndexCall EXCEPT
                                 !.op = "load_index", !.docs = saved.docs,
                                 !.query = saved.dim,
                                 !.raised = r.raised, !.error = r.error,
                                 !.store_before = vector_store]
            /\ BeginOp("load_index")
            /\ UNCHANGED <<memvars, cleared, uploads>>

\* --- TextChunker.chunk_text ---
\* A text is the sequence of pieces split_text cuts it into (none for the
\* empty text); a metadata argument is None or a dict, given by its keys.
MetaKeys == {"file_id", "file_name", "file_type"}
ChunkerKeys == {"chunked_by", "chunker_id", "watermark"}
MaxPieces == 3
Texts == UNION {[1..n -> {"c1", "c2"}] : n \in 0..MaxPieces}
MetadataArgs == {[given |-> FALSE, keys |-> {}]}
                    \cup {[given |-> TRUE, keys |-> k] : k \in SUBSET MetaKeys}

\* "base_metadata = metadata or {}": a non-empty dict is the caller's own
\* object, and update() writes the chunker's keys into it; None and the empty
\* dict are replaced by a fresh one. Each chunk gets a copy plus its own keys.
chunk_text(text, metadata) ==
    IF text = << >>
        THEN [documents |-> << >>, metadata_after |-> metadata]
    ELSE LET own == metadata.given /\ metadata.keys # {}
             base == metadata.keys \cup ChunkerKeys
         IN  [documents |->
                  [i \in 1..Len(text) |->
                      [page_content |-> text[i],
                       metadata |-> base \cup {"chunk_index", "chunk_hash"},
                       chunk_index |-> i - 1]],
              metadata_after |-> IF own THEN [metadata EXCEPT !.keys = base]
                                 ELSE metadata]

ChunkText ==
    \E text \in Texts, metadata \in MetadataArgs :
        LET r == chunk_text(text, metadata)
        IN  /\ chunk_call' = [called |-> TRUE, text |-> text,
                              metadata |-> metadata,
                              metadata_after |-> r.metadata_after,
                              documents |-> r.documents]
            /\ UNCHANGED <<memvars, ga, before, vector_store, agentvars,
                           index_call, threads, cleared, uploads>>

\* --- CleanRAGAgent.process_question ---
\* Lines 211-219: generate the session id when none is given and build the
\* initial AgentState (documents, answer and error are absent).
StartRun(op, query, sid, prev) ==
    /\ sid = NoSession => uuidCount < MaxUuid
    /\ LET session_id == IF sid = NoSession THEN uuid4(uuidCount) ELSE sid
       IN  /\ state' = [NoState EXCEPT !.session_id = session_id,
                                       !.query = query, !.messages = prev]
           /\ uuidCount' = IF sid = NoSession THEN uuidCount + 1 ELSE uuidCount
    /\ req' = [op |-> op, query |-> query, sid |-> sid, prev |-> prev,
               cold |-> ~vector_store.initialized]
    /\ before' = conversations
    /\ pc' = "initialize"
    /\ response' = NoResponse
    /\ http' = NoHttp
    /\ steps' = << >>
    /\ rewriterLog' = << >>
    /\ searchLog' = << >>
    /\ ga' = NoCall
    /\ index_call' = NoIndexCall
    /\ UNCHANGED <<memvars, vector_store, threads, cleared, uploads, chunk_call>>

\* process_question called directly (test_rag.py, the ask_question helper).
ProcessQuestion ==
    \E query \in Queries, sid \in Sessions \cup {NoSession}, prev \in PrevMessages :
        /\ Idle
        /\ StartRun("direct", query, sid, prev)

\* Mutant: the endpoint does not check the index.
store_ready_Always(store) == TRUE

\* "if not vector_store.vector_store": the endpoint's check that an index exists.
store_ready(store) == store.initialized

\* The question endpoint: rejected with 400 when no index exists, otherwise
\* process_question(question, session_id) without previous messages.
AskQuestion ==
    \E query \in Queries, sid \in Sessions \cup {NoSession} :
        /\ Idle
        /\ IF ~store_ready(vector_store)
              THEN /\ http' = [status |-> 400, detail |-> NoDocumentsUploaded,
                               answer |-> None]
                   /\ req' = [op |-> "api", query |-> query, sid |-> sid,
                              prev |-> << >>, cold |-> TRUE]
                   /\ before' = conversations
                   /\ pc' = "done"
                   /\ state' = NoState
                   /\ response' = NoResponse
                   /\ steps' = << >>
                   /\ rewriterLog' = << >>
                   /\ searchLog' = << >>
                   /\ ga' = NoCall
                   /\ index_call' = NoIndexCall
                   /\ UNCHANGED <<memvars, vector_store, uuidCount, threads, cleared, uploads, chunk_call>>
           ELSE StartRun("api", query, sid, << >>)

\* _should_continue: the conditional edge after process_query and tools.
should_continue(st) == IF st.error # None THEN "error" ELSE "continue"

InitializeNode ==
    /\ pc = "initialize"
    /\ state' = [state EXCEPT !.metadata = TRUE]
    /\ steps' = Append(steps, "initialize")
    /\ pc' = "process_query"
    /\ UNCHANGED <<memvars, ga, before, vector_store, req, response, http,
                   rewriterLog, searchLog, uuidCount, index_call, threads, cleared, uploads, chunk_call>>

\* _process_query_node: append the question to the messages; with earlier
\* messages present, ask the rewriter for a standalone question.
ProcessQueryNode ==
    /\ pc = "process_query"
    /\ LET messages == Append(state.messages,
                              [type |-> "human", content |-> state.query])
       IN  \E llm \in {"ok", "raise"} :
             LET r == generate_standalone_question(conversations, state.query,
                                                   state.session_id, llm)
                 st == IF Len(messages) > 1
                          THEN [state EXCEPT !.messages = messages,
                                             !.standalone_query = r.standalone]
                       ELSE [state EXCEPT !.messages = messages]
             IN  /\ state' = st
                 /\ rewriterLog' =
                       IF Len(messages) > 1
                          THEN Append(rewriterLog,
                                      [query |-> state.query,
                                       sid |-> state.session_id,
                                       shown |-> r.shown,
                                       llm_called |-> r.llm_called])
                       ELSE rewriterLog
                 /\ pc' = IF should_continue(st) = "error" THEN "finalize"
                          ELSE "tools"
    /\ steps' = Append(steps, "process_query")
    /\ UNCHANGED <<memvars, ga, before, vector_store, req, response, http,
                   searchLog, uuidCount, index_call, threads, cleared, uploads, chunk_call>>

\* Mutant: the except branch reports no session id.
system_error_response_NoSession(st, e) ==
    [success |-> FALSE, session_id |-> None, error |-> e,
     error_type |-> "system_error", answer |-> NoResult, documents |-> << >>,
     returned |-> TRUE]

\* The except branch of process_question: the workflow raised.
system_error_response(st, e) ==
    [success |-> FALSE, session_id |-> st.session_id, error |-> e,
     error_type |-> "system_error", answer |-> NoResult, documents |-> << >>,
     returned |-> TRUE]

\* What the question endpoint makes of the result of process_question.
http_response(r) ==
    IF ~r.success THEN [status |-> 500, detail |-> r.error, answer |-> None]
    ELSE [status |-> 200, detail |-> None,
          answer |-> IF "text" \in DOMAIN r.answer THEN r.answer.text ELSE None]

\* Mutant: the node runs the retrieval tool on the question and stores the
\* documents found.
ToolsNode_Retrieves ==
    /\ pc = "tools"
    /\ steps' = Append(steps, "tools")
    /\ state' = [state EXCEPT !.documents =
                    retrieve_documents_tool(vector_store, state.query).documents]
    /\ pc' = IF should_continue(state) = "error" THEN "finalize"
             ELSE "generate_answer"
    /\ UNCHANGED <<memvars, ga, before, vector_store, req, response, http,
                   rewriterLog, searchLog, uuidCount, index_call, threads, cleared, uploads, chunk_call>>

\* The prebuilt ToolNode: it runs the tool calls of the latest AIMessage.  No
\* message of the run carries a tool call, so no tool runs and nothing is
\* written to documents: the node either raises (no AIMessage to read the
\* calls from), which ends graph.invoke, or returns without a state update.
ToolsNode ==
    /\ pc = "tools"
    /\ steps' = Append(steps, "tools")
    /\ \/ /\ response' = system_error_response(state, ToolNodeError)
          /\ http' = IF req.op = "api" THEN http_response(response') ELSE http
          /\ pc' = "done"
       \/ /\ pc' = IF should_continue(state) = "error" THEN "finalize"
                   ELSE "generate_answer"
          /\ UNCHANGED <<response, http>>
    /\ UNCHANGED <<memvars, ga, before, vector_store, req, state,
                   rewriterLog, searchLog, uuidCount, index_call, threads, cleared, uploads, chunk_call>>

\* generate_answer as the node calls it, in one step: llm is the outcome of
\* the model call, "raise" or the text returned.
generate_answer(conv, query, docs, sid, llm) ==
    IF llm = "raise"
       THEN [raised |-> TRUE, conv |-> on_llm_failure(conv, sid, query),
             result |-> NoResult]
    ELSE [raised |-> FALSE,
          conv |-> IF sid # NoSession
                      THEN store_answer(store_question(conv, sid, query), sid, llm)
                   ELSE conv,
          result |-> AnswerResult(query, llm, BuildSources(docs), sid)]

\* _generate_answer_node: no documents is an error; otherwise generate the
\* answer and read its "text" entry.
GenerateAnswerNode ==
    /\ pc = "generate_answer"
    /\ steps' = Append(steps, "generate_answer")
    /\ pc' = "finalize"
    /\ IF state.documents = << >>
          THEN /\ state' = [state EXCEPT !.error = NoDocumentsError]
               /\ UNCHANGED <<conversations, appended>>
       ELSE \E llm \in LLMOutputs \cup {"raise"} :
              LET r == generate_answer(conversations, state.query,
                                       state.documents, state.session_id, llm)
              IN  /\ conversations' = r.conv
                  /\ appended' = IF r.raised THEN appended
                                 ELSE Log(Log(appended, state.session_id, "user",
                                              state.query),
                                          state.session_id, "assistant", llm)
                  /\ state' =
                       IF r.raised THEN [state EXCEPT !.error = LLMError]
                       ELSE IF "text" \notin DOMAIN r.result
                          THEN [state EXCEPT !.error = KeyErrorText]
                       ELSE [state EXCEPT
                               !.answer = r.result,
                               !.messages = Append(@, [type |-> "ai",
                                                       content |-> r.result.text])]
    /\ UNCHANGED <<lastRead, ga, before, vector_store, req, response, http,
                   rewriterLog, searchLog, uuidCount, index_call, threads, cleared, uploads, chunk_call>>

\* _finalize_node: an apology message on error (the answer's agent_metadata
\* otherwise, not modelled).
FinalizeNode ==
    /\ pc = "finalize"
    /\ steps' = Append(steps, "finalize")
    /\ state' = IF state.error # None
                   THEN [state EXCEPT !.messages =
                            Append(@, [type |-> "ai", content |-> "apology"])]
                ELSE state
    /\ pc' = "respond"
    /\ UNCHANGED <<memvars, ga, before, vector_store, req, response, http,
                   rewriterLog, searchLog, uuidCount, index_call, threads, cleared, uploads, chunk_call>>

\* Lines 224-246: the response built from the final state.
format_response(st) ==
    IF st.error # None
       THEN [success |-> FALSE, session_id |-> st.session_id, error |-> st.error,
             error_type |-> "workflow_error", answer |-> NoResult,
             documents |-> << >>, returned |-> TRUE]
    ELSE [success |-> TRUE, session_id |-> st.session_id, error |-> None,
          error_type |-> None, answer |-> st.answer,
          documents |-> st.documents, returned |-> TRUE]

Respond ==
    /\ pc = "respond"
    /\ response' = format_response(state)
    /\ http' = IF req.op = "api" THEN http_response(response') ELSE http
    /\ pc' = "done"
    /\ UNCHANGED <<memvars, ga, before, vector_store, req, state, steps,
                   rewriterLog, searchLog, uuidCount, index_call, threads, cleared, uploads, chunk_call>>

\* The session endpoint: llm_service.memory.clear_session(session_id).
ClearSession ==
    \E sid \in Sessions :
        /\ Idle
        /\ conversations' = clear_session(conversations, sid)
        /\ appended' = [appended EXCEPT ![sid] = << >>]
        /\ BeginOp("clear_session")
        /\ index_call' = NoIndexCall
        /\ UNCHANGED <<lastRead, vector_store, cleared, uploads, chunk_call>>

Next ==
    \/ GenerateAnswerCall
    \/ GenerateAnswerInvoke
    \/ GenerateAnswerStoreUser
    \/ GenerateAnswerStoreAssistant
    \/ GenerateAnswerReturn
    \/ CreateVectorStore
    \/ ProcessQuestion
    \/ AskQuestion
    \/ InitializeNode
    \/ ProcessQueryNode
    \/ ToolsNode
    \/ GenerateAnswerNode
    \/ FinalizeNode
    \/ Respond
    \/ ClearSession

Spec == Init /\ [][Next]_vars

\* The document endpoints and the index's own methods, with questions asked
\* through the question endpoint in between.
NextIndex ==
    \/ CreateVectorStore
    \/ UploadDocument
    \/ SimilaritySearch
    \/ ClearDocuments
    \/ DeleteDocument
    \/ AskQuestion
    \/ InitializeNode
    \/ ProcessQueryNode
    \/ ToolsNode
    \/ GenerateAnswerNode
    \/ FinalizeNode
    \/ Respond

SpecIndex == Init /\ [][NextIndex]_vars

\* Saved indexes loaded into the service and then searched.
NextLoad ==
    \/ LoadIndex
    \/ CreateVectorStore
    \/ SimilaritySearch

SpecLoad == Init /\ [][NextLoad]_vars

\* chunk_text called on every text and metadata argument.
SpecChunk == Init /\ [][ChunkText]_vars

(***************************************************************************)
(* generate_answer entered on a memory that already holds a history        *)
(***************************************************************************)
\* Longest stored history considered.  A memory of the default capacity
\* (max_history = 10) keeps up to 20 turns, more than the 6 that
\* generate_answer replays.
MaxStored == 8

\* The histories generate_answer can have left in a session: user and
\* assistant turns.
StoredHistories == UNION {[1..n -> MemTurns] : n \in 0..MaxStored}

\* The memory holds no session, or session s1 with a stored history; appended
\* counts from here on.
InitWindow ==
    /\ conversations \in
          {<< >>} \cup {[s \in {"s1"} |-> h] : h \in StoredHistories}
    /\ appended = [s \in AllSessionIds |-> << >>]
    /\ lastRead = NoRead
    /\ ga = NoCall
    /\ before = << >>
    /\ vector_store = NoStore
    /\ req = NoRequest
    /\ pc = "idle"
    /\ state = NoState
    /\ response = NoResponse
    /\ http = NoHttp
    /\ steps = << >>
    /\ rewriterLog = << >>
    /\ searchLog = << >>
    /\ uuidCount = 0
    /\ index_call = NoIndexCall
    /\ threads = [t \in Threads |-> NoThreadCall]
    /\ cleared = FALSE
    /\ uploads = << >>
    /\ chunk_call = NoChunkCall

\* generate_answer up to the model call, for every stored history.
SpecWindow == InitWindow /\ [][GenerateAnswerCall]_vars

(***************************************************************************)
(* The services called from two worker threads (a caller that runs the     *)
(* blocking calls on an executor).  Neither service takes a lock.  Each    *)
(* add_message call and each library call on the index is one step; the    *)
(* threads interleave between those steps.                                 *)
(***************************************************************************)
othervars == <<lastRead, ga, before, agentvars, index_call, cleared, uploads, chunk_call>>

ThreadFree(t) == threads[t].pc \in {"idle", "returned", "raised"}

\* What is left of a call once it has returned or raised.
Finished(op, raised) ==
    [NoThreadCall EXCEPT !.op = op, !.raised = raised,
                         !.pc = IF raised THEN "raised" ELSE "returned"]

\* Threads inside generate_answer for the session.
InGenerateAnswer(sid) ==
    {u \in Threads : /\ threads[u].op = "generate_answer"
                     /\ threads[u].sid = sid
                     /\ ~ThreadFree(u)}

\* Threads inside add_documents, past its guard.
InAddDocuments ==
    {u \in Threads : threads[u].op = "add_documents" /\ threads[u].pc = "running"}

\* generate_answer entered on a thread: the messages are built (the history
\* is read) and the model call starts.
ThreadGenerateAnswerCall(t) ==
    \E query \in Queries, sid \in Sessions :
        /\ ThreadFree(t)
        /\ Len(appended[sid]) + 2 * Cardinality(InGenerateAnswer(sid)) + 2
              <= AppendCap(sid)
        /\ threads' = [threads EXCEPT ![t] =
                          [NoThreadCall EXCEPT !.op = "generate_answer",
                                               !.pc = "invoke",
                                               !.query = query,
                                               !.docs = <<"f1">>,
                                               !.sid = sid]]
        /\ UNCHANGED <<conversations, appended, vector_store, othervars>>

\* self.llm.invoke(messages) returns or raises on the thread.
ThreadInvoke(t) ==
    /\ threads[t].op = "generate_answer" /\ threads[t].pc = "invoke"
    /\ \/ \E a \in LLMOutputs :
            /\ threads' = [threads EXCEPT ![t].answer = a, ![t].pc = "store_user"]
            /\ UNCHANGED conversations
       \/ /\ threads' = [threads EXCEPT ![t] = Finished("generate_answer", TRUE)]
          /\ conversations' =
                on_llm_failure(conversations, threads[t].sid, threads[t].query)
    /\ UNCHANGED <<appended, vector_store, othervars>>

ThreadStoreUser(t) ==
    /\ threads[t].op = "generate_answer" /\ threads[t].pc = "store_user"
    /\ conversations' = store_question(conversations, threads[t].sid, threads[t].query)
    /\ appended' = Log(appended, threads[t].sid, "user", threads[t].query)
    /\ threads' = [threads EXCEPT ![t].pc = "store_assistant"]
    /\ UNCHANGED <<vector_store, othervars>>

\* The second add_message, then the result dict is built and returned.
ThreadStoreAssistant(t) ==
    /\ threads[t].op = "generate_answer" /\ threads[t].pc = "store_assistant"
    /\ conversations' = store_answer(conversations, threads[t].sid, threads[t].answer)
    /\ appended' = Log(appended, threads[t].sid, "assistant", threads[t].answer)
    /\ threads' = [threads EXCEPT ![t] = Finished("generate_answer", FALSE)]
    /\ UNCHANGED <<vector_store, othervars>>

\* The guard a VectorStoreService method starts with.
index_guard_raises(op, store, docs) ==
    IF op = "create_vector_store" THEN docs = << >>
    ELSE ~store.initialized

\* A VectorStoreService method entered on a thread: its guard raises, or the
\* thread goes on to the library call (which first awaits the embeddings).
ThreadIndexCall(t) ==
    \E op \in {"create_vector_store", "add_documents",
                "similarity_search_with_score"},
       docs \in {<< >>, <<"f1">>, <<"f2">>}, query \in {"q1"} :
        /\ ThreadFree(t)
        /\ op = "add_documents" =>
              Len(vector_store.docs) + Cardinality(InAddDocuments) < MaxIndexed
        /\ threads' = [threads EXCEPT ![t] =
              IF index_guard_raises(op, vector_store, docs)
                 THEN Finished(op, TRUE)
              ELSE [NoThreadCall EXCEPT
                      !.op = op, !.pc = "running",
                      !.docs = IF op = "similarity_search_with_score"
                                  THEN << >> ELSE docs,
                      !.query = IF op = "similarity_search_with_score"
                                   THEN query ELSE None]]
        /\ UNCHANGED <<conversations, appended, vector_store, othervars>>

\* The library call completes on the thread: FAISS.from_documents and the
\* assignment to self.vector_store, self.vector_store.add_documents, or the
\* search of the index as it is then.
ThreadIndexReturn(t) ==
    /\ threads[t].pc = "running"
    /\ LET c == threads[t]
       IN  IF c.op = "create_vector_store"
              THEN /\ vector_store' = create_vector_store(vector_store, c.docs).store
                   /\ threads' = [threads EXCEPT ![t] = Finished(c.op, FALSE)]
           ELSE IF c.op = "add_documents"
              THEN /\ vector_store' = add_documents(vector_store, c.docs).store
                   /\ threads' = [threads EXCEPT ![t] = Finished(c.op, FALSE)]
           ELSE LET r == similarity_search_with_score(vector_store, c.query)
                IN  /\ threads' = [threads EXCEPT ![t] =
                          [Finished(c.op, FALSE) EXCEPT !.results = r.results]]
                    /\ vector_store' = r.store
    /\ UNCHANGED <<conversations, appended, othervars>>

NextThreads ==
    \E t \in Threads :
        \/ ThreadGenerateAnswerCall(t)
        \/ ThreadInvoke(t)
        \/ ThreadStoreUser(t)
        \/ ThreadStoreAssistant(t)
        \/ ThreadIndexCall(t)
        \/ ThreadIndexReturn(t)

SpecThreads == Init /\ [][NextThreads]_vars

(***************************************************************************)
(* Properties                                                              *)
(***************************************************************************)
Occurrences(seq, x) == Cardinality({i \in 1..Len(seq) : seq[i] = x})
Min(a, b) == IF a <= b THEN a ELSE b
IsSuffix(h, all) ==
    /\ Len(h) <= Len(all)
    /\ h = SubSeq(all, Len(all) - Len(h) + 1, Len(all))
LastTurns(all, n) == SubSeq(all, Len(all) - Min(n, Len(all)) + 1, Len(all))

\* process_question has returned a response.
Returned == pc = "done" /\ response.returned

\* The two terminal outcomes of a question, read off the response.
Answered(r) == r.success /\ r.answer # NoResult /\ r.error = None
Failed(r) == ~r.success /\ r.error # None /\ r.answer = NoResult

Completed == Returned /\ Occurrences(steps, "finalize") = 1

\* C3: with n >= 1 fragments retrievable and no failure of the model call,
\* a completed process_question ends Answered and the answer lists exactly n
\* sources.
C3_GroundedAnswer ==
    LET r == retrieve_documents_tool(vector_store, state.query)
    IN  (Completed /\ r.count >= 1 /\ state.error # LLMError) =>
            /\ response.success
            /\ Len(response.answer.sources) = r.count

\* How a caller classifies a failure response.
ReportedCause(r) ==
    IF r.error = NoDocumentsError THEN "no_documents"
    ELSE IF r.error = VectorStoreError THEN "retrieval_error"
    ELSE IF r.error = LLMError THEN "generation_error"
    ELSE "other"

\* C4: the failure response of a completed run tells its cause: no_documents
\* is reported only for a retrieval that found nothing, a failed or empty
\* retrieval is reported as retrieval_error or no_documents, a failed model
\* call as generation_error.
C4_DistinctCauses ==
    LET r == retrieve_documents_tool(vector_store, state.query)
        reported == ReportedCause(response)
    IN  (Completed /\ ~response.success) =>
            /\ reported = "no_documents" => r.count = 0
            /\ r.count = 0 => reported \in {"no_documents", "retrieval_error"}
            /\ state.error = LLMError => reported = "generation_error"

\* C5: once the rewriter has produced a standalone question and the run has
\* gone past retrieval to synthesis, the index was searched, and only with
\* that question.
C5_SearchUsesStandalone ==
    (/\ Occurrences(steps, "generate_answer") = 1
     /\ Len(rewriterLog) > 0
     /\ rewriterLog[1].llm_called
     /\ state.standalone_query \notin {None, state.query}
     /\ vector_store.initialized) =>
        /\ searchLog # << >>
        /\ \A i \in 1..Len(searchLog) : searchLog[i] = state.standalone_query

\* C6: a question asked under a session id that already holds an exchange
\* invokes the rewriter, and the rewriter is shown both turns of it.
C6_FollowUpRewrite ==
    (/\ req.op \in {"api", "direct"}
     /\ Occurrences(steps, "process_query") = 1
     /\ req.sid \in Sessions
     /\ Len(get_history(before, req.sid)) >= 2) =>
        /\ Len(rewriterLog) = 1
        /\ rewriterLog[1].llm_called
        /\ LastTurns(rewriterLog[1].shown, 2) = LastTurns(get_history(before, req.sid), 2)

\* C7: while the model call of generate_answer is pending, and after it has
\* failed, the memory is what it was when generate_answer was called, and a
\* failed call returns no result.
C7_FailureLeavesMemory ==
    /\ ga.pc = "invoke" => conversations = before
    /\ ga.pc = "raised" => conversations = before /\ ga.result = NoResult

\* C7 witness: a call with a session id failed while the memory held turns.
C7_Witness ==
    /\ ga.pc = "raised" /\ ga.sid \in Sessions
    /\ get_history(conversations, ga.sid) # << >>

\* C8: when generate_answer has returned, the session's history is its
\* history at the call followed by the question as user turn and the answer
\* as assistant turn (trimmed to capacity), other sessions are untouched, and
\* without a session id the whole memory is untouched.
C8_TwoTurnsAppended ==
    ga.pc = "returned" =>
        IF ga.sid = NoSession THEN conversations = before
        ELSE /\ DOMAIN conversations = (DOMAIN before) \cup {ga.sid}
             /\ conversations[ga.sid] =
                   LastTurns(get_history(before, ga.sid)
                                \o <<Message("user", ga.query),
                                     Message("assistant", ga.answer)>>,
                             2 * max_history)
             /\ \A s \in (DOMAIN before) \ {ga.sid} : conversations[s] = before[s]

\* C8 witness: a call with a session id that already held turns returned.
C8_Witness ==
    /\ ga.pc = "returned" /\ ga.sid \in Sessions
    /\ Len(get_history(before, ga.sid)) >= 2
    /\ Cardinality(DOMAIN conversations) = 2

\* C9: every stored history has at most 2*max_history turns and is a
\* contiguous suffix, in append order, of the turns appended to its session.
C9_BoundedSuffix ==
    \A s \in DOMAIN conversations :
        /\ Len(conversations[s]) <= 2 * max_history
        /\ IsSuffix(conversations[s], appended[s])

\* C9 witness: turns have been evicted from a session.
C9_Witness ==
    \E s \in DOMAIN conversations :
        /\ Len(appended[s]) > 2 * max_history
        /\ Len(conversations[s]) = 2 * max_history

\* C10: after 2*max_history + 5 appends to a session, reading its recent
\* history with count max_history gives the last max_history appended turns,
\* oldest first.
C10_MemoryBounding ==
    (/\ lastRead.sid \in Sessions
     /\ lastRead.count = max_history
     /\ Len(appended[lastRead.sid]) = 2 * max_history + 5) =>
        lastRead.turns =
            SubSeq(appended[lastRead.sid],
                   Len(appended[lastRead.sid]) - max_history + 1,
                   Len(appended[lastRead.sid]))

\* C10 witness: such a read after 2*max_history + 5 appends.
C10_Witness ==
    /\ lastRead.sid \in Sessions
    /\ lastRead.count = max_history
    /\ Len(appended[lastRead.sid]) = 2 * max_history + 5
    /\ Len(lastRead.turns) = max_history

\* C11: an operation on one session leaves every other session's history as
\* it was: in every step, a session that received no append and no clear
\* reads the same history before and after, and it is present after the step
\* exactly if it was before.
C11_SessionIsolation ==
    [][\A a \in Sessions :
          appended'[a] = appended[a] =>
              /\ get_history(conversations', a) = get_history(conversations, a)
              /\ (a \in DOMAIN conversations') = (a \in DOMAIN conversations)]_vars

\* C11 witness: both sessions hold turns, the first one past its capacity, the
\* second one fewer, and the second was just read.
C11_Witness ==
    /\ DOMAIN conversations = Sessions
    /\ Len(appended["s1"]) > 2 * max_history
    /\ Len(conversations["s2"]) = 1
    /\ lastRead.sid = "s2"
    /\ lastRead.turns = conversations["s2"]
    /\ lastRead.turns # conversations["s1"]

\* C12: once no generate_answer call is in progress on a session, the turns
\* appended to it come in pairs: each user turn is immediately followed by an
\* assistant turn and no turn stands alone.
C12_PerSessionAtomic ==
    \A s \in Sessions :
        InGenerateAnswer(s) = {} =>
            /\ Len(appended[s]) % 2 = 0
            /\ \A i \in 1..Len(appended[s]) :
                  appended[s][i].role = IF i % 2 = 1 THEN "user" ELSE "assistant"

\* Threads inside a VectorStoreService method, past its guard.
IndexWriters ==
    {u \in Threads : /\ threads[u].pc = "running"
                     /\ threads[u].op \in {"create_vector_store", "add_documents"}}
IndexReaders ==
    {u \in Threads : /\ threads[u].pc = "running"
                     /\ threads[u].op = "similarity_search_with_score"}

\* C13: while a thread is inside a write of the index, no other thread is
\* inside a write or a search of it.
C13_IndexWriteExclusive ==
    \A t \in IndexWriters : (IndexWriters \cup IndexReaders) \ {t} = {}

\* The latest service call was a search.
Searched == index_call.op \in {"similarity_search", "similarity_search_with_score"}

\* C14: a search of an index that was never populated fails with the
\* not-initialized error and returns no result list.
C14_SearchBeforeInit ==
    (Searched /\ ~index_call.store_before.initialized) =>
        /\ index_call.raised
        /\ index_call.error = NotInitialized
        /\ index_call.results = << >>

\* C14 witness: a scored search was called on the index as constructed,
\* before any clear, and raised.
C14_Witness ==
    /\ index_call.op = "similarity_search_with_score"
    /\ index_call.store_before = NoStore
    /\ index_call.raised
    /\ ~cleared

\* C15: adding a non-empty list of fragments when no index exists succeeds
\* and leaves an initialized index holding exactly those fragments.
C15_AddBehavesAsCreate ==
    (/\ index_call.op = "add_documents"
     /\ index_call.docs # << >>
     /\ ~index_call.store_before.initialized) =>
        /\ ~index_call.raised
        /\ vector_store.initialized
        /\ vector_store.docs = index_call.docs

\* C16: from a call of the documents-clear endpoint until the next successful
\* create or add, the index is uninitialized: a search fails with the
\* not-initialized error and a question put to the endpoint is rejected as
\* "no documents uploaded".
C16_ClearUninitializes ==
    cleared =>
        /\ ~vector_store.initialized
        /\ Searched => (index_call.raised /\ index_call.error = NotInitialized)
        /\ (pc = "done" /\ req.op = "api") =>
              (http.status = 400 /\ http.detail = NoDocumentsUploaded)

\* C17: create_vector_store with an empty list fails with the empty-input
\* error and leaves the index, existing or not, as it was.
C17_CreateEmptyRejected ==
    (index_call.op = "create_vector_store" /\ index_call.docs = << >>) =>
        /\ index_call.raised
        /\ index_call.error = NoDocumentsProvided
        /\ vector_store = index_call.store_before

\* C17 witness: the empty create was called on an index that holds fragments.
C17_Witness ==
    /\ index_call.op = "create_vector_store"
    /\ index_call.docs = << >>
    /\ index_call.raised
    /\ vector_store.initialized
    /\ Len(vector_store.docs) = 2

\* C18: when generate_answer has returned for fragments f1..fn, its sources
\* are n entries, entry i has index i and the excerpt of fi, and the context
\* sent to the model presents fi under the marker [Source i].
C18_CitationsResolve ==
    ga.pc = "returned" =>
        LET n == Len(ga.docs)
            context == ga.messages[1].content
        IN  /\ Len(ga.result.sources) = n
            /\ Len(context) = n
            /\ \A i \in 1..n :
                  /\ ga.result.sources[i].index = i
                  /\ ga.result.sources[i].content = <<ga.docs[i], "...">>
                  /\ context[i].marker = i
                  /\ context[i].text = ga.docs[i]

\* C18 witness: a call over two distinct fragments returned.
C18_Witness ==
    /\ ga.pc = "returned"
    /\ Len(ga.docs) = 2
    /\ ga.docs[1] # ga.docs[2]
    /\ Len(ga.result.sources) = 2

\* C19: the result of a successful generate_answer carries the model's output
\* under the field text.
C19_ResultHasText ==
    ga.pc = "returned" =>
        /\ "text" \in DOMAIN ga.result
        /\ ga.result.text = ga.answer

\* C20: with a session id, the messages sent to the model are the system
\* instruction, then the min(6, stored turns) most recent turns of the session
\* oldest first, a user turn as human and an assistant turn as ai message,
\* then the current question as last message, which occurs once.
C20_MessageList ==
    (ga.pc = "invoke" /\ ga.sid # NoSession) =>
        LET h == get_history(conversations, ga.sid)
            n == Min(6, Len(h))
            m == ga.messages
            question == [type |-> "human", content |-> <<"Question", ga.query>>]
        IN  /\ Len(m) = n + 2
            /\ m[1].type = "system"
            /\ \A i \in 1..n :
                  LET turn == h[Len(h) - n + i]
                  IN  /\ m[1 + i].type =
                            (IF turn.role = "user" THEN "human" ELSE "ai")
                      /\ m[1 + i].content = <<turn.content>>
            /\ m[n + 2] = question
            /\ Cardinality({i \in 1..Len(m) :
                               /\ m[i].type = "human"
                               /\ m[i].content = question.content}) = 1

\* C20 witness: the call was made on a session holding more than 6 turns of
\* both roles, which starts with a turn that is not replayed.
C20_Witness ==
    /\ ga.pc = "invoke" /\ ga.sid = "s1"
    /\ Len(get_history(conversations, "s1")) = 8
    /\ Len(ga.messages) = 8
    /\ conversations["s1"][1].role = "assistant"
    /\ conversations["s1"][3].role = "user"
    /\ ga.messages[2].type = "human"

\* C21: when the rewriter is invoked for a session without stored history, it
\* makes no model call, is shown nothing and returns the question unchanged.
C21_NoHistoryNoCall ==
    \A i \in 1..Len(rewriterLog) :
        get_history(before, rewriterLog[i].sid) = << >> =>
            /\ ~rewriterLog[i].llm_called
            /\ rewriterLog[i].shown = << >>
            /\ state.standalone_query = rewriterLog[i].query

\* C21 witness: the rewriter was invoked for a session without history while
\* another session holds turns.
C21_Witness ==
    /\ Len(rewriterLog) = 1
    /\ rewriterLog[1].sid = "s2"
    /\ ~rewriterLog[1].llm_called
    /\ get_history(conversations, "s2") = << >>
    /\ get_history(conversations, "s1") # << >>

\* The rewriter asked the model and the call failed: the question came back
\* unchanged (a successful rewrite differs from the question).
RewriteFailed ==
    /\ Len(rewriterLog) = 1
    /\ rewriterLog[1].llm_called
    /\ state.standalone_query = state.query

\* C22: a failed model call in the rewriter yields the original question and
\* no error: the run goes on to retrieval, and by the time it reaches
\* synthesis the index has been searched.
C22_RewriteFailureHarmless ==
    RewriteFailed =>
        /\ steps[Len(steps)] = "process_query" =>
              (state.error = None /\ pc = "tools")
        /\ Occurrences(steps, "generate_answer") = 1 => searchLog # << >>

\* C26: a read of a session that holds no entry (never written, or cleared)
\* returns the empty sequence.
C26_UnknownSessionEmpty ==
    (lastRead.sid \in Sessions /\ lastRead.sid \notin DOMAIN conversations) =>
        lastRead.turns = << >>

\* C26 witness: such a read while the other session holds turns.
C26_Witness ==
    /\ lastRead.sid = "s2"
    /\ "s2" \notin DOMAIN conversations
    /\ "s1" \in DOMAIN conversations
    /\ lastRead.turns = << >>

\* C27: clearing a session that has no entry leaves the memory as it is, and
\* clearing any session a second time changes nothing more.
C27_ClearIdempotent ==
    \A s \in Sessions :
        LET once == clear_session(conversations, s)
        IN  /\ s \notin DOMAIN conversations => once = conversations
            /\ clear_session(once, s) = once
            /\ s \notin DOMAIN once
            /\ \A o \in (DOMAIN conversations) \ {s} :
                  o \in DOMAIN once /\ once[o] = conversations[o]

\* C27 witness: one session has been cleared (or never written) while the
\* other holds turns past its capacity.
C27_Witness ==
    /\ "s2" \notin DOMAIN conversations
    /\ "s1" \in DOMAIN conversations
    /\ Len(appended["s1"]) > 2 * max_history

\* C28: every response of process_question carries a session id: the
\* caller's when one was given, otherwise the one generated for this request,
\* and the run's state and rewriter calls use the same id.
C28_SessionIdInResponse ==
    Returned =>
        /\ response.session_id # None
        /\ req.sid # NoSession => response.session_id = req.sid
        /\ req.sid = NoSession =>
              (/\ response.session_id = uuid4(uuidCount - 1)
               /\ response.session_id \notin Sessions)
        /\ state.session_id = response.session_id
        /\ \A i \in 1..Len(rewriterLog) : rewriterLog[i].sid = response.session_id

\* C28 witness: the workflow raised on a request without session id, and the
\* response carries the generated id.
C28_Witness ==
    /\ Returned
    /\ req.sid = NoSession
    /\ response.error_type = "system_error"
    /\ response.session_id = uuid4(0)

\* C30: when process_question has returned a failure response, every
\* session's stored history is what it was before the call.
C30_FailureKeepsMemory ==
    (Returned /\ ~response.success) => conversations = before

\* C30 witness: a run on a populated index, for a session that holds turns,
\* went through synthesis and returned a failure.
C30_Witness ==
    /\ Returned /\ ~response.success
    /\ Occurrences(steps, "generate_answer") = 1
    /\ vector_store.initialized
    /\ req.sid \in Sessions
    /\ get_history(conversations, req.sid) # << >>

\* C23: a step that is a search, or any step of a question, leaves the index
\* as it was: the same fragments, each with the metadata it was indexed with.
C23_QuestionsReadOnly ==
    [][(index_call'.op \in {"similarity_search", "similarity_search_with_score",
                            "none"})
          => vector_store' = vector_store]_vars

\* C24: after the single-document delete the index is what it was before; a
\* successful delete leaves only that document's file off the disk, and its
\* fragments that were in the index are still there and every search on the
\* index returns them.
C24_DeleteKeepsIndex ==
    index_call.op = "delete_document" =>
        /\ vector_store = index_call.store_before
        /\ index_call.raised => uploads = index_call.files_before
        /\ ~index_call.raised =>
              /\ uploads = [index_call.files_before EXCEPT
                                ![index_call.file].on_disk = FALSE]
              /\ \A q \in Queries, i \in 1..Len(index_call.docs) :
                    (\E j \in 1..Len(index_call.store_before.docs) :
                         index_call.store_before.docs[j] = index_call.docs[i])
                    => LET found == similarity_search(vector_store, q).results
                       IN  \E j \in 1..Len(found) : found[j] = index_call.docs[i]

\* C24 witness: an uploaded document whose fragment is in the index was
\* deleted and its file is gone.
C24_Witness ==
    /\ index_call.op = "delete_document" /\ ~index_call.raised
    /\ ~uploads[index_call.file].on_disk
    /\ vector_store.initialized
    /\ \E j \in 1..Len(vector_store.docs) : vector_store.docs[j] = index_call.docs[1]

\* C25: loading a saved index built with another embedding dimension raises
\* a dimension-mismatch error and installs nothing, and every search that
\* is served runs on an index of the provider's dimension.
C25_MismatchedLoadFails ==
    /\ (index_call.op = "load_index" /\ index_call.query = OtherDim) =>
           /\ index_call.raised
           /\ index_call.error = "DimensionMismatchError"
           /\ vector_store = index_call.store_before
    /\ (Searched /\ ~index_call.raised) =>
           index_call.store_before.dim = ProviderDim

\* C29: after chunk_text the caller's metadata argument is what it was
\* before the call.
C29_ChunkTextPure ==
    chunk_call.called => chunk_call.metadata_after = chunk_call.metadata

====
